---- MODULE Spec2Model ----
(***************************************************************************)
(* Cycora backend (src/cycora-backend/app.py): the cycle prediction engine *)
(* calculate_predictions and the keyword response selector                 *)
(* get_chatbot_response.                                                   *)
(*                                                                         *)
(* A datetime is an integer number of ticks: ordinal * TicksPerDay + tick, *)
(* where ordinal is the proleptic Gregorian day number (0001-01-01 is 1,   *)
(* as datetime.toordinal) and tick the time of day.  A timedelta is a      *)
(* difference of ticks and its .days the floor of it in days.  A Python    *)
(* str is a sequence of one-character strings.  A JSON value is a record   *)
(* [kind, n, s]: kind "absent" (no such key), "null", "int" (n), "str" (s).*)
(* An exception that leaves the function is the outcome of that name.      *)
(***************************************************************************)
EXTENDS Integers, Sequences, FiniteSets, TLC

VARIABLES pc, cycle_data, today, last_period, cycle_length, period_length,
          next_period, ovulation_date, fertile_start, fertile_end,
          iters, outcome, result,
          spc, message, reply,
          responses, fallback, cycles_db,
          handler, request, response, served,
          caller, prev, calls, writes,
          inner_circle_db, users_db, registered

pvars == <<pc, cycle_data, today, last_period, cycle_length, period_length,
           next_period, ovulation_date, fertile_start, fertile_end,
           iters, outcome, result>>

svars == <<spc, message, reply>>

\* The module globals CHATBOT_RESPONSES and FALLBACK_RESPONSE at run time.
tvars == <<responses, fallback>>

\* The request being handled, the response sent, the requests handled so far.
hvars == <<handler, request, response, served>>

\* Concurrent callers of the two functions: whose profile the running call
\* of calculate_predictions was given, what its previous call was given and
\* returned, the calls and the writes to cycles_db made so far.
cvars == <<caller, prev, calls, writes>>

\* The other stores, and the registrations that have succeeded.
dvars == <<inner_circle_db, users_db, registered>>

vars == <<pvars, svars, tvars, cycles_db, hvars, cvars, dvars>>

\* What a step of calculate_predictions, of get_chatbot_response leaves alone.
nonpvars == <<svars, tvars, cycles_db, hvars, cvars, dvars>>
nonsvars == <<pvars, tvars, cycles_db, hvars, cvars, dvars>>

\* ------------------------------------------------------------ bounds
\* The clock (datetime.now()) ranges over the days 1..MaxNowDay, at
\* TicksPerDay instants of each day (tick 0 is midnight).
MaxNowDay == 62
TicksPerDay == 2
\* A chat message is made of at most MaxWords words of Words, or is Example.
MaxWords == 3
\* iters counts the passes of the while loop of lines 115-116, up to
\* MaxPasses: more than a positive cycle_length needs within MaxNowDay days.
MaxPasses == MaxNowDay + 1
\* A run of the request handlers serves at most MaxRequests requests.
MaxRequests == 2
\* Concurrent callers make at most MaxCalls calls of calculate_predictions
\* and at most MaxWrites writes to cycles_db.
MaxCalls == 2
MaxWrites == 2
\* The friends invited are drawn from FreshEmailCount new addresses, besides
\* one that is in the demo user's circle already.
FreshEmailCount == 6

\* ------------------------------------------------------- python values
Absent == [kind |-> "absent", n |-> 0, s |-> <<>>]
Null == [kind |-> "null", n |-> 0, s |-> <<>>]
PyInt(i) == [kind |-> "int", n |-> i, s |-> <<>>]
PyStr(t) == [kind |-> "str", n |-> 0, s |-> t]

Digits == <<"0", "1", "2", "3", "4", "5", "6", "7", "8", "9">>
IsDigit(c) == \E i \in 1..10 : Digits[i] = c
DigitVal(c) == (CHOOSE i \in 1..10 : Digits[i] = c) - 1
AllDigits(t) == \A i \in 1..Len(t) : IsDigit(t[i])

RECURSIVE Decimal(_)
Decimal(t) ==
    IF t = <<>> THEN 0
    ELSE 10 * Decimal(SubSeq(t, 1, Len(t) - 1)) + DigitVal(t[Len(t)])

Whitespace == {" ", "\t", "\n"}

RECURSIVE LStrip(_)
LStrip(t) ==
    IF t # <<>> /\ t[1] \in Whitespace THEN LStrip(Tail(t)) ELSE t

RECURSIVE RStrip(_)
RStrip(t) ==
    IF t # <<>> /\ t[Len(t)] \in Whitespace
    THEN RStrip(SubSeq(t, 1, Len(t) - 1)) ELSE t

Strip(t) == RStrip(LStrip(t))

\* int(v): an int as it is; a str by its decimal digits after strip(), with
\* an optional sign; None is a TypeError and any other text a ValueError.
PyIntOf(v) ==
    CASE v.kind = "int" -> [exc |-> "none", val |-> v.n]
      [] v.kind = "str" ->
           LET t == Strip(v.s)
               signed == t # <<>> /\ t[1] \in {"-", "+"}
               d == IF signed THEN Tail(t) ELSE t
           IN IF d # <<>> /\ AllDigits(d)
              THEN [exc |-> "none",
                    val |-> IF signed /\ t[1] = "-" THEN 0 - Decimal(d)
                            ELSE Decimal(d)]
              ELSE [exc |-> "ValueError", val |-> 0]
      [] OTHER -> [exc |-> "TypeError", val |-> 0]

\* dict.get(key, default)
DictGet(v, default) == IF v.kind = "absent" THEN PyInt(default) ELSE v

\* ------------------------------------------------------------ calendar
MinOrdinal == 1

IsLeap(y) == y % 4 = 0 /\ (y % 100 # 0 \/ y % 400 = 0)

DaysInMonth(y, m) ==
    IF m = 2 THEN (IF IsLeap(y) THEN 29 ELSE 28)
    ELSE IF m \in {4, 6, 9, 11} THEN 30 ELSE 31

DaysBeforeYear(y) ==
    (y - 1) * 365 + ((y - 1) \div 4) - ((y - 1) \div 100) + ((y - 1) \div 400)

RECURSIVE DaysBeforeMonth(_, _)
DaysBeforeMonth(y, m) ==
    IF m <= 1 THEN 0 ELSE DaysBeforeMonth(y, m - 1) + DaysInMonth(y, m - 1)

ToOrdinal(y, m, d) == DaysBeforeYear(y) + DaysBeforeMonth(y, m) + d

YearOf(o) ==
    LET near == (o * 400) \div 146097
    IN CHOOSE y \in near..(near + 2) :
           y >= 1 /\ DaysBeforeYear(y) < o /\ o <= DaysBeforeYear(y + 1)

MonthOf(o) ==
    LET y == YearOf(o)
        r == o - DaysBeforeYear(y)
    IN CHOOSE m \in 1..12 :
           DaysBeforeMonth(y, m) < r /\ r <= DaysBeforeMonth(y, m + 1)

DayOf(o) ==
    LET y == YearOf(o) IN o - DaysBeforeYear(y) - DaysBeforeMonth(y, MonthOf(o))

Midnight(o) == o * TicksPerDay
OrdinalOf(dt) == dt \div TicksPerDay
DatetimeMin == Midnight(MinOrdinal)

\* timedelta(days=n) and timedelta.days
Days(n) == n * TicksPerDay
TimedeltaDays(delta) == delta \div TicksPerDay

\* strftime("%Y-%m-%d") and strftime("%b %d"), as the fields they print
FormatFull(dt) ==
    LET o == OrdinalOf(dt) IN <<YearOf(o), MonthOf(o), DayOf(o)>>
FormatShort(dt) ==
    LET o == OrdinalOf(dt) IN <<MonthOf(o), DayOf(o)>>

\* The fields of a text cut at each "-".
RECURSIVE SplitDash(_)
SplitDash(t) ==
    IF \A i \in 1..Len(t) : t[i] # "-" THEN <<t>>
    ELSE LET k == CHOOSE i \in 1..Len(t) :
                      t[i] = "-" /\ \A j \in 1..(i - 1) : t[j] # "-"
         IN <<SubSeq(t, 1, k - 1)>> \o SplitDash(SubSeq(t, k + 1, Len(t)))

\* datetime.strptime(text, "%Y-%m-%d"): four digits of year, one or two of
\* month and of day, a date of the calendar; anything else is a ValueError.
Strptime(t) ==
    LET f == SplitDash(t)
        shaped == /\ Len(f) = 3
                  /\ Len(f[1]) = 4 /\ AllDigits(f[1])
                  /\ Len(f[2]) \in {1, 2} /\ AllDigits(f[2])
                  /\ Len(f[3]) \in {1, 2} /\ AllDigits(f[3])
    IN IF ~shaped THEN [exc |-> "ValueError", val |-> 0]
       ELSE LET y == Decimal(f[1])
                m == Decimal(f[2])
                d == Decimal(f[3])
            IN IF y >= 1 /\ m \in 1..12 /\ d >= 1 /\ d <= DaysInMonth(y, m)
               THEN [exc |-> "none", val |-> Midnight(ToOrdinal(y, m, d))]
               ELSE [exc |-> "ValueError", val |-> 0]

\* Line 105 with its except clause (106-107): cycle_data["last_period_date"]
\* raises KeyError for a missing key; strptime raises TypeError for a value
\* that is not a str, which the except clause does not name.
ParseLastPeriod(v) ==
    CASE v.kind = "absent" -> [exc |-> "KeyError", val |-> 0]
      [] v.kind = "str" -> Strptime(v.s)
      [] OTHER -> [exc |-> "TypeError", val |-> 0]

Caught(exc) == exc \in {"ValueError", "KeyError"}

\* ------------------------------------------------- calculate_predictions
\* Mutant: timedelta(weeks=cycle_length) instead of days.
AdvanceByWeeks(dt, cl) == dt + Days(7 * cl)

\* dt + timedelta(days=cycle_length) (lines 114 and 116)
Advance(dt, cl) == dt + Days(cl)

\* Mutant: the loop also advances a next_period that is exactly now.
LoopCondOrEqual(np, td) == np <= td

\* Mutant: the loop compares calendar dates instead of datetimes.
LoopCondByDate(np, td) == OrdinalOf(np) < OrdinalOf(td)

\* while next_period < today (line 115)
LoopCond(np, td) == np < td

\* (today - last_period).days % cycle_length (line 124); Python's % takes
\* the sign of the divisor.
PyMod(a, b) == a - b * (a \div b)

\* Mutant: a remainder that takes the sign of the dividend (C's %).
TruncMod(a, b) == IF a >= 0 THEN PyMod(a, b) ELSE 0 - PyMod(0 - a, b)
DaysSincePeriodTrunc(td, lp, cl) == TruncMod(TimedeltaDays(td - lp), cl)

DaysSincePeriod(td, lp, cl) == PyMod(TimedeltaDays(td - lp), cl)

\* Mutant: the period length is read again from the store when the phase
\* is decided, instead of the value taken at line 110.
PhaseOfStored(dsp, pl) ==
    LET stored == cycles_db[caller].period_length.n
    IN IF dsp < stored THEN "Menstrual"
       ELSE IF dsp < 13 THEN "Follicular"
       ELSE IF dsp < 17 THEN "Ovulation"
       ELSE "Luteal"

\* Mutant: the thresholds compared with <= instead of <.
PhaseOfInclusive(dsp, pl) ==
    IF dsp <= pl THEN "Menstrual"
    ELSE IF dsp <= 13 THEN "Follicular"
    ELSE IF dsp <= 17 THEN "Ovulation"
    ELSE "Luteal"

\* The if/elif chain of lines 125-140.
PhaseOf(dsp, pl) ==
    IF dsp < pl THEN "Menstrual"
    ELSE IF dsp < 13 THEN "Follicular"
    ELSE IF dsp < 17 THEN "Ovulation"
    ELSE "Luteal"

PhaseDescription(ph) ==
    CASE ph = "Menstrual" ->
           "Your body is shedding the uterine lining. Rest, hydrate, and be gentle with yourself."
      [] ph = "Follicular" ->
           "Estrogen is rising! You may feel more energetic and optimistic during this phase."
      [] ph = "Ovulation" ->
           "Peak fertility window. You may feel more confident and social."
      [] OTHER ->
           "Progesterone rises then drops. Energy may decrease as your period approaches."

MoodTip(ph) ==
    CASE ph = "Menstrual" ->
           "It's normal to feel lower energy. Warm drinks and light movement can help."
      [] ph = "Follicular" ->
           "Great time for new projects and social activities."
      [] ph = "Ovulation" ->
           "Energy is at its highest. Channel it into meaningful activities."
      [] OTHER ->
           "Hydrate and rest. Be gentle with yourself - this phase asks for self-care."

\* Mutant: the window ends one day after ovulation.
FertileEndOneDay(ov) == ov + Days(1)

\* Lines 119-121.
OvulationDate(np) == np - Days(14)
FertileStart(ov) == ov - Days(2)
FertileEnd(ov) == ov + Days(2)

\* Mutant: the difference of the calendar dates, the time of day dropped.
DaysUntilPeriodByDate(np, td) == OrdinalOf(np) - OrdinalOf(td)

\* Lines 142 and 148.
Max(a, b) == IF a >= b THEN a ELSE b
DaysUntilPeriod(np, td) == Max(0, TimedeltaDays(np - td))

\* Line 143.
DayOfCycle(dsp) == dsp + 1

\* The dict of lines 145-159.
Prediction(np, td, lp, cl, pl) ==
    LET ov == OvulationDate(np)
        dsp == DaysSincePeriod(td, lp, cl)
        ph == PhaseOf(dsp, pl)
    IN [next_period |-> FormatShort(np),
        next_period_full |-> FormatFull(np),
        days_until_period |-> DaysUntilPeriod(np, td),
        ovulation_date |-> FormatShort(ov),
        fertile_start |-> FormatShort(FertileStart(ov)),
        fertile_end |-> FormatShort(FertileEnd(ov)),
        fertile_window |-> <<FormatShort(FertileStart(ov)), FormatShort(FertileEnd(ov))>>,
        phase |-> ph,
        phase_description |-> PhaseDescription(ph),
        mood_tip |-> MoodTip(ph),
        day_of_cycle |-> DayOfCycle(dsp),
        cycle_length |-> cl,
        period_length |-> pl]

\* What the variables hold where the function has not (yet) assigned them.
Unset == 0
NoPrediction ==
    [next_period |-> <<0, 0>>, next_period_full |-> <<0, 0, 0>>,
     days_until_period |-> 0, ovulation_date |-> <<0, 0>>,
     fertile_start |-> <<0, 0>>, fertile_end |-> <<0, 0>>,
     fertile_window |-> <<<<0, 0>>, <<0, 0>>>>, phase |-> "",
     phase_description |-> "", mood_tip |-> "", day_of_cycle |-> 0,
     cycle_length |-> 0, period_length |-> 0]

\* ------------------------------------------------- get_chatbot_response
\* Lines 165-303, in insertion order: each keyword with its entry, the
\* response text by its first sentence and the emoji by its code points.
CHATBOT_RESPONSES == <<
    [keyword |-> <<"c", "r", "a", "m", "p">>,
     data |-> [response |-> "Cramps are very common during menstruation, caused by uterine contractions.",
              emoji |-> "U+1F4AA"]],
    [keyword |-> <<"h", "e", "a", "d", "a", "c", "h", "e">>,
     data |-> [response |-> "Hormonal headaches are common during your cycle, especially during the menstrual and late luteal phases when estrogen drops.",
              emoji |-> "U+1FA79"]],
    [keyword |-> <<"b", "l", "o", "a", "t">>,
     data |-> [response |-> "Bloating is a very common PMS symptom caused by hormonal changes that affect water retention and digestion.",
              emoji |-> "U+1F33F"]],
    [keyword |-> <<"p", "a", "i", "n">>,
     data |-> [response |-> "Pain during your cycle can range from mild discomfort to severe cramping.",
              emoji |-> "U+2764+U+FE0F+U+200D+U+1FA79"]],
    [keyword |-> <<"n", "a", "u", "s", "e", "a">>,
     data |-> [response |-> "Nausea during your period is caused by prostaglandins",
              emoji |-> "U+1F34B"]],
    [keyword |-> <<"t", "i", "r", "e", "d">>,
     data |-> [response |-> "Feeling tired is completely normal!",
              emoji |-> "U+1F634"]],
    [keyword |-> <<"f", "a", "t", "i", "g", "u", "e">>,
     data |-> [response |-> "Fatigue is one of the most commonly reported symptoms across all cycle phases.",
              emoji |-> "U+2728"]],
    [keyword |-> <<"m", "o", "o", "d">>,
     data |-> [response |-> "Mood changes throughout your cycle are completely normal and tied to hormonal fluctuations:",
              emoji |-> "U+1F308"]],
    [keyword |-> <<"a", "n", "x", "i", "e", "t", "y">>,
     data |-> [response |-> "Anxiety during your cycle is more common than you might think, especially during the luteal phase when progesterone drops.",
              emoji |-> "U+1F499"]],
    [keyword |-> <<"s", "t", "r", "e", "s", "s">>,
     data |-> [response |-> "Stress and your cycle are deeply interconnected",
              emoji |-> "U+1F9D8"]],
    [keyword |-> <<"i", "r", "r", "i", "t", "a", "b">>,
     data |-> [response |-> "Irritability during PMS is caused by the drop in estrogen and progesterone before your period.",
              emoji |-> "U+1F4AA"]],
    [keyword |-> <<"s", "a", "d">>,
     data |-> [response |-> "It's okay to feel sad, especially during hormonal shifts in your cycle.",
              emoji |-> "U+1F338"]],
    [keyword |-> <<"l", "u", "t", "e", "a", "l">>,
     data |-> [response |-> "The **Luteal Phase** is the second half of your cycle (after ovulation, before your period).",
              emoji |-> "U+1F319"]],
    [keyword |-> <<"f", "o", "l", "l", "i", "c", "u", "l", "a", "r">>,
     data |-> [response |-> "The **Follicular Phase** starts after your period ends and lasts until ovulation.",
              emoji |-> "U+1F331"]],
    [keyword |-> <<"o", "v", "u", "l", "a", "t", "i", "o", "n">>,
     data |-> [response |-> "**Ovulation** is when an egg is released from your ovary, typically around day 14 of a 28-day cycle.",
              emoji |-> "U+2600+U+FE0F"]],
    [keyword |-> <<"m", "e", "n", "s", "t", "r", "u", "a", "l">>,
     data |-> [response |-> "The **Menstrual Phase** is when your period occurs (typically days 1-5).",
              emoji |-> "U+2744+U+FE0F"]],
    [keyword |-> <<"p", "e", "r", "i", "o", "d">>,
     data |-> [response |-> "Your period is part of the menstrual phase",
              emoji |-> "U+1F534"]],
    [keyword |-> <<"p", "h", "a", "s", "e">>,
     data |-> [response |-> "Your menstrual cycle has **4 main phases**, each with unique characteristics:",
              emoji |-> "U+1F504"]],
    [keyword |-> <<"c", "y", "c", "l", "e">>,
     data |-> [response |-> "Your **menstrual cycle** is the monthly process your body goes through to prepare for potential pregnancy.",
              emoji |-> "U+1F4CA"]],
    [keyword |-> <<"e", "x", "e", "r", "c", "i", "s", "e">>,
     data |-> [response |-> "Exercise affects and is affected by your cycle!",
              emoji |-> "U+1F3C3"]],
    [keyword |-> <<"s", "l", "e", "e", "p">>,
     data |-> [response |-> "Sleep needs change throughout your cycle:",
              emoji |-> "U+1F634"]],
    [keyword |-> <<"d", "i", "e", "t">>,
     data |-> [response |-> "Nutrition plays a huge role in how you feel during your cycle!",
              emoji |-> "U+1F957"]],
    [keyword |-> <<"w", "a", "t", "e", "r">>,
     data |-> [response |-> "Hydration is CRUCIAL for managing cycle symptoms!",
              emoji |-> "U+1F4A7"]],
    [keyword |-> <<"h", "y", "d", "r", "a", "t">>,
     data |-> [response |-> "Great question about hydration!",
              emoji |-> "U+1F4A7"]],
    [keyword |-> <<"p", "m", "s">>,
     data |-> [response |-> "**PMS (Premenstrual Syndrome)** affects up to 75% of menstruating people.",
              emoji |-> "U+1FA7A"]],
    [keyword |-> <<"h", "e", "l", "p">>,
     data |-> [response |-> "I'm here to help!",
              emoji |-> "U+1F4A1"]],
    [keyword |-> <<"h", "e", "l", "l", "o">>,
     data |-> [response |-> "Hi there!",
              emoji |-> "U+2764+U+FE0F"]],
    [keyword |-> <<"t", "h", "a", "n", "k">>,
     data |-> [response |-> "You're so welcome!",
              emoji |-> "U+1F338"]],
    [keyword |-> <<"s", "e", "l", "f", ".", "c", "a", "r", "e">>,
     data |-> [response |-> "Self-care during your cycle isn't luxury",
              emoji |-> "U+1F49B"]],
    [keyword |-> <<"a", "c", "n", "e">>,
     data |-> [response |-> "Hormonal acne is closely tied to your cycle!",
              emoji |-> "U+2728"]],
    [keyword |-> <<"w", "e", "i", "g", "h", "t">>,
     data |-> [response |-> "Weight fluctuations during your cycle are completely NORMAL!",
              emoji |-> "U+2696+U+FE0F"]],
    [keyword |-> <<"f", "r", "i", "e", "n", "d">>,
     data |-> [response |-> "Having supportive friends during your cycle makes a huge difference!",
              emoji |-> "U+1F46D"]]
>>

FALLBACK_RESPONSE ==
    [response |-> "That's a great question!",
     emoji |-> "U+1F4A1"]

\* best_match = None (line 317)
None == [response |-> "", emoji |-> ""]

UpperCase == <<"A", "B", "C", "D", "E", "F", "G", "H", "I", "J", "K", "L", "M",
               "N", "O", "P", "Q", "R", "S", "T", "U", "V", "W", "X", "Y", "Z">>
LowerCase == <<"a", "b", "c", "d", "e", "f", "g", "h", "i", "j", "k", "l", "m",
               "n", "o", "p", "q", "r", "s", "t", "u", "v", "w", "x", "y", "z">>

\* str.lower()
LowerChar(c) ==
    IF \E i \in 1..26 : UpperCase[i] = c
    THEN LowerCase[CHOOSE i \in 1..26 : UpperCase[i] = c]
    ELSE c
Lower(t) == [i \in 1..Len(t) |-> LowerChar(t[i])]

\* message.lower().strip() (line 314)
Normalize(msg) == Strip(Lower(msg))

\* keyword in message_lower (line 322)
Contains(keyword, text) ==
    \E i \in 0..(Len(text) - Len(keyword)) :
        SubSeq(text, i + 1, i + Len(keyword)) = keyword

\* Mutant: an equally long keyword seen later replaces the earlier one.
BetterOrEqual(score, best_score) == score >= best_score

\* score > best_score (line 325)
Better(score, best_score) == score > best_score

\* The for loop of lines 320-327, from table entry i on.
RECURSIVE Scan(_, _, _, _)
Scan(i, message_lower, best_score, best_match) ==
    IF i > Len(responses) THEN best_match
    ELSE LET keyword == responses[i].keyword
             data == responses[i].data
         IN IF Contains(keyword, message_lower)
                /\ Better(Len(keyword), best_score)
            THEN Scan(i + 1, message_lower, Len(keyword), data)
            ELSE Scan(i + 1, message_lower, best_score, best_match)

\* Mutant: the match is returned as it is, None included.
ReturnMatchOnly(best_match) == best_match

\* Lines 329-331; a non-empty dict is true.
ReturnMatch(best_match) ==
    IF best_match # None THEN best_match ELSE fallback

get_chatbot_response(msg) == ReturnMatch(Scan(1, Normalize(msg), 0, None))

\* ------------------------------------------------------------- inputs
Example == <<"I", " ", "h", "a", "v", "e", " ", "r", "e", "a", "l", "l", "y", " ", "b", "a", "d", " ", "c", "r", "a", "m", "p", "s", " ", "a", "n", "d", " ", "a", " ", "h", "e", "a", "d", "a", "c", "h", "e">>

Words ==
    {<<" ">>,
     <<"\t">>,
     <<"I">>,
     <<"C", "r", "a", "m", "p", "s">>,
     <<"b", "l", "o", "a", "t">>,
     <<"H", "E", "A", "D", "A", "C", "H", "E">>,
     <<"p", "m">>,
     <<"s", "a", "d">>,
     <<"P", "e", "r", "i", "o", "d">>,
     <<"s", "e", "l", "f", "-", "c", "a", "r", "e">>,
     <<"x", "y", "z", "a", "b", "c", "1", "2", "3">>}

RECURSIVE Messages(_)
Messages(n) ==
    IF n = 0 THEN {<<>>}
    ELSE LET shorter == Messages(n - 1)
         IN shorter \cup {m \o w : m \in shorter, w \in Words}

\* ------------------------------------------------------------- inputs
Pad(n, w) ==
    [i \in 1..w |-> Digits[((n \div (10 ^ (w - i))) % 10) + 1]]
IsoText(y, m, d) == Pad(y, 4) \o <<"-">> \o Pad(m, 2) \o <<"-">> \o Pad(d, 2)

DateTexts ==
    {IsoText(1, m, d) : m \in {1, 2, 13}, d \in {25, 30}}
        \cup {<<"s", "o", "o", "n">>, <<"1", "-", "2", "-", "3">>, <<>>}

LastPeriodInputs ==
    {Absent, Null, PyInt(20260201)} \cup {PyStr(t) : t \in DateTexts}

CycleLengthInputs ==
    {Absent, Null, PyStr(<<>>), PyStr(<<"a", "b", "c">>), PyStr(<<"2", "8">>)}
        \cup {PyInt(i) : i \in {-5, 0, 1, 28}}

PeriodLengthInputs ==
    {Absent, Null, PyStr(<<"f", "i", "v", "e">>)}
        \cup {PyInt(i) : i \in {-1, 0, 5, 20}}

Profiles ==
    [last_period_date : LastPeriodInputs, cycle_length : CycleLengthInputs,
     period_length : PeriodLengthInputs]

Nows == {Midnight(o) + t : o \in 1..MaxNowDay, t \in 0..(TicksPerDay - 1)}

\* ------------------------------------------------------------ handlers
NoProfile ==
    [last_period_date |-> Absent, cycle_length |-> Absent,
     period_length |-> Absent]

\* Lines 79-84: the cycle data of the demo user.
Seed_cycles_db ==
    "demo-user-001" :>
        [last_period_date |-> PyStr(IsoText(2026, 2, 1)),
         cycle_length |-> PyInt(28), period_length |-> PyInt(5),
         mood |-> PyStr(<<"l", "o", "w", "-", "e", "n", "e", "r", "g", "y">>)]

\* cycles_db[user_id] = value
Put(db, key, value) ==
    [k \in DOMAIN db \cup {key} |-> IF k = key THEN value ELSE db[k]]

\* data.get(key): None when the key is missing.
GetOrNone(v) == IF v.kind = "absent" THEN Null ELSE v
\* data.get(key, '')
GetOrEmpty(v) == IF v.kind = "absent" THEN PyStr(<<>>) ELSE v

NoCycleInput ==
    [last_period_date |-> Absent, cycle_length |-> Absent,
     period_length |-> Absent, mood |-> Absent]
NoRequest ==
    [endpoint |-> "", user_id |-> "", data |-> NoCycleInput, message |-> <<>>]

\* A response: the HTTP status code and the JSON body.  predictions is
\* "absent" (no such key), "null" or "record" (then prediction holds it);
\* text is the "response" string of the chat handler.
NoResponse ==
    [code |-> 0, status |-> "", message |-> "", predictions |-> "absent",
     prediction |-> NoPrediction, text |-> <<>>, emoji |-> "",
     user_id |-> ""]
Error(code, msg) ==
    [NoResponse EXCEPT !.code = code, !.status = "error", !.message = msg]
\* An exception that leaves a handler: Flask answers 500.
Unhandled(exc) ==
    [NoResponse EXCEPT !.code = 500, !.status = "exception", !.message = exc]
Escaped == outcome \notin {"None", "prediction"}

\* str(n) of an int, as an f-string renders it.
RECURSIVE DecimalOf(_)
DecimalOf(n) ==
    IF n < 10 THEN <<Digits[n + 1]>>
    ELSE DecimalOf(n \div 10) \o <<Digits[(n % 10) + 1]>>
StrOfInt(n) == IF n < 0 THEN <<"-">> \o DecimalOf(0 - n) ELSE DecimalOf(n)

\* The characters of a phase name (lines 127-138).
PhaseChars(ph) ==
    CASE ph = "Menstrual" -> <<"M", "e", "n", "s", "t", "r", "u", "a", "l">>
      [] ph = "Follicular" ->
             <<"F", "o", "l", "l", "i", "c", "u", "l", "a", "r">>
      [] ph = "Ovulation" -> <<"O", "v", "u", "l", "a", "t", "i", "o", "n">>
      [] ph = "Luteal" -> <<"L", "u", "t", "e", "a", "l">>

\* The pieces of the f-string of line 569.  A text is a sequence of
\* characters; a string that is copied whole (the selected response, the
\* mood tip) is one element of it.
PersonalizationHead ==
    <<"\n", "\n", "U+1F4C5", " ", "*", "B", "a", "s", "e", "d", " ", "o",
      "n", " ", "y", "o", "u", "r", " ", "c", "y", "c", "l", "e", " ", "d",
      "a", "t", "a", ",", " ", "y", "o", "u", "'", "r", "e", " ", "c", "u",
      "r", "r", "e", "n", "t", "l", "y", " ", "i", "n", " ", "y", "o", "u",
      "r", " ", "*", "*">>
\* Mutant: the day of the cycle is announced in lower case.
PersonalizationPhaseLower ==
    <<" ", "p", "h", "a", "s", "e", "*", "*", " ", "(", "d", "a", "y", " ">>
PersonalizationPhase ==
    <<" ", "p", "h", "a", "s", "e", "*", "*", " ", "(", "D", "a", "y", " ">>
PersonalizationOf ==
    <<" ", "o", "f", " ">>
PersonalizationTip ==
    <<")", ".", " ">>
PersonalizationTail ==
    <<"*">>

\* Line 569.
Personalization(predictions) ==
    PersonalizationHead \o PhaseChars(predictions.phase)
        \o PersonalizationPhase \o StrOfInt(predictions.day_of_cycle)
        \o PersonalizationOf \o StrOfInt(predictions.cycle_length)
        \o PersonalizationTip \o <<predictions.mood_tip>>
        \o PersonalizationTail

\* Lines 571-575.
ChatResponse(chosen, personalization) ==
    [NoResponse EXCEPT !.code = 200, !.status = "success",
                       !.text = <<chosen.response>> \o personalization,
                       !.emoji = chosen.emoji]

\* Lines 412-416 and 429-432.
PredictionResponse(msg) ==
    [NoResponse EXCEPT !.code = 200, !.status = "success", !.message = msg,
                       !.predictions = IF outcome = "prediction"
                                       THEN "record" ELSE "null",
                       !.prediction = result]

\* ------------------------------------------------------ handler inputs
UserIdInputs == {"", "demo-user-001", "new-user"}

CycleInputs ==
    [last_period_date : {Absent, PyStr(IsoText(1, 1, 25)),
                         PyStr(<<"s", "o", "o", "n">>)},
     cycle_length : {Absent, PyInt(0), PyInt(28), PyStr(<<"a", "b", "c">>)},
     period_length : {Absent, Null},
     mood : {Absent}]

ChatMessages ==
    {<<>>, <<" ", "\t">>, Example,
     <<"x", "y", "z", "a", "b", "c", "1", "2", "3">>}

AppNows == {Midnight(25), Midnight(44) + 1, Midnight(62)}

\* ------------------------------------------------------------ actions
Raise(exc) ==
    /\ pc' = "done"
    /\ outcome' = exc
    /\ result' = NoPrediction

\* Lines 104-114: the call, up to the first test of the while loop.  The
\* clock is read at line 111, once the three fields have been converted.
Call(data, clock) ==
    /\ pc = "idle"
    /\ cycle_data' = data
    /\ ovulation_date' = Unset
    /\ fertile_start' = Unset
    /\ fertile_end' = Unset
    /\ iters' = 0
    /\ LET lp == ParseLastPeriod(data.last_period_date)
           cl == PyIntOf(DictGet(data.cycle_length, 28))
           pl == PyIntOf(DictGet(data.period_length, 5))
       IN IF lp.exc # "none"
          THEN /\ Raise(IF Caught(lp.exc) THEN "None" ELSE lp.exc)
               /\ UNCHANGED <<today, last_period, cycle_length, period_length,
                              next_period>>
          ELSE /\ last_period' = lp.val
               /\ IF cl.exc # "none"
                  THEN /\ Raise(cl.exc)
                       /\ UNCHANGED <<today, cycle_length, period_length,
                                      next_period>>
                  ELSE /\ cycle_length' = cl.val
                       /\ IF pl.exc # "none"
                          THEN /\ Raise(pl.exc)
                               /\ UNCHANGED <<today, period_length, next_period>>
                          ELSE /\ period_length' = pl.val
                               /\ \E now \in clock : today' = now
                               /\ IF Advance(lp.val, cl.val) < DatetimeMin
                                  THEN /\ Raise("OverflowError")
                                       /\ UNCHANGED next_period
                                  ELSE /\ next_period' = Advance(lp.val, cl.val)
                                       /\ pc' = "loop"
                                       /\ UNCHANGED <<outcome, result>>

calculate_predictions ==
    /\ pc = "idle"
    /\ \E data \in Profiles : Call(data, Nows)
    /\ UNCHANGED nonpvars

\* Line 116: one pass of the loop body.
LoopIter ==
    /\ pc = "loop"
    /\ LoopCond(next_period, today)
    /\ iters' = IF iters < MaxPasses THEN iters + 1 ELSE iters
    /\ IF Advance(next_period, cycle_length) < DatetimeMin
       THEN /\ Raise("OverflowError")
            /\ UNCHANGED next_period
       ELSE /\ next_period' = Advance(next_period, cycle_length)
            /\ UNCHANGED <<pc, outcome, result>>
    /\ UNCHANGED <<cycle_data, today, last_period, cycle_length, period_length,
                   ovulation_date, fertile_start, fertile_end>>
    /\ UNCHANGED nonpvars

\* Lines 118-159: the loop has ended.
Finish ==
    /\ pc = "loop"
    /\ ~LoopCond(next_period, today)
    /\ LET ov == OvulationDate(next_period) IN
       IF ov < DatetimeMin
       THEN /\ Raise("OverflowError")
            /\ UNCHANGED <<ovulation_date, fertile_start, fertile_end>>
       ELSE /\ ovulation_date' = ov
            /\ IF FertileStart(ov) < DatetimeMin
               THEN /\ Raise("OverflowError")
                    /\ UNCHANGED <<fertile_start, fertile_end>>
               ELSE /\ fertile_start' = FertileStart(ov)
                    /\ fertile_end' = FertileEnd(ov)
                    /\ IF cycle_length = 0
                       THEN Raise("ZeroDivisionError")
                       ELSE /\ pc' = "done"
                            /\ outcome' = "prediction"
                            /\ result' = Prediction(next_period, today,
                                             last_period, cycle_length,
                                             period_length)
    /\ UNCHANGED <<cycle_data, today, last_period, cycle_length, period_length,
                   next_period, iters>>
    /\ UNCHANGED nonpvars

\* Mutant: the first entry is popped from the table at every call.
SelectingAndTrimming(msg) ==
    /\ message' = msg
    /\ reply' = get_chatbot_response(msg)
    /\ spc' = "done"
    /\ responses' = SubSeq(responses, 2, Len(responses))
    /\ UNCHANGED <<pvars, fallback, cycles_db, hvars, cvars, dvars>>

\* Lines 312-331: one call of get_chatbot_response.
Selecting(msg) ==
    /\ message' = msg
    /\ reply' = get_chatbot_response(msg)
    /\ spc' = "done"
    /\ UNCHANGED nonsvars

Select ==
    /\ spc = "idle"
    /\ \E msg \in Messages(MaxWords) \cup {Example} : Selecting(msg)

\* ----------------------------------------------------- request handlers
\* A handler that calls nothing leaves no locals of the two functions.
NoPredictorCall ==
    /\ pc' = "idle"
    /\ cycle_data' = NoProfile
    /\ today' = Unset
    /\ last_period' = Unset
    /\ cycle_length' = Unset
    /\ period_length' = Unset
    /\ next_period' = Unset
    /\ ovulation_date' = Unset
    /\ fertile_start' = Unset
    /\ fertile_end' = Unset
    /\ iters' = 0
    /\ outcome' = "none"
    /\ result' = NoPrediction

NoSelectorCall ==
    /\ spc' = "idle"
    /\ message' = <<>>
    /\ reply' = None

Respond(r) ==
    /\ response' = r
    /\ handler' = "none"

\* calculate_predictions has returned or raised: its caller goes on.
Resume ==
    /\ pc' = "idle"
    /\ UNCHANGED <<cycle_data, today, last_period, cycle_length, period_length,
                   next_period, ovulation_date, fertile_start, fertile_end,
                   iters, outcome, result>>
    /\ UNCHANGED <<svars, tvars, cycles_db, request, served, cvars, dvars>>

\* Lines 397-411: POST /api/cycle, up to the call of calculate_predictions.
store_cycle ==
    /\ handler = "none"
    /\ pc = "idle"
    /\ served < MaxRequests
    /\ served' = served + 1
    /\ \E user_id \in UserIdInputs, data \in CycleInputs :
           /\ request' = [NoRequest EXCEPT !.endpoint = "store_cycle",
                                           !.user_id = user_id, !.data = data]
           /\ LET cl == PyIntOf(DictGet(data.cycle_length, 28))
                  pl == PyIntOf(DictGet(data.period_length, 5))
                  stored == [last_period_date |-> GetOrNone(data.last_period_date),
                             cycle_length |-> PyInt(cl.val),
                             period_length |-> PyInt(pl.val),
                             mood |-> GetOrEmpty(data.mood)]
              IN IF user_id = ""
                 THEN /\ Respond(Error(400, "user_id required"))
                      /\ NoPredictorCall
                      /\ UNCHANGED cycles_db
                 ELSE IF cl.exc # "none" \/ pl.exc # "none"
                 THEN /\ Respond(Unhandled(IF cl.exc # "none"
                                           THEN cl.exc ELSE pl.exc))
                      /\ NoPredictorCall
                      /\ UNCHANGED cycles_db
                 ELSE /\ cycles_db' = Put(cycles_db, user_id, stored)
                      /\ Call(stored, AppNows)
                      /\ handler' = "store_cycle"
                      /\ response' = NoResponse
    /\ NoSelectorCall
    /\ UNCHANGED <<tvars, cvars, dvars>>

\* Lines 412-416.
store_cycle_return ==
    /\ handler = "store_cycle"
    /\ pc = "done"
    /\ Respond(IF Escaped THEN Unhandled(outcome)
               ELSE PredictionResponse("Cycle data stored successfully"))
    /\ Resume

\* Lines 419-425: GET /api/prediction/<user_id>.
get_prediction ==
    /\ handler = "none"
    /\ pc = "idle"
    /\ served < MaxRequests
    /\ served' = served + 1
    /\ \E user_id \in UserIdInputs \ {""} :
           /\ request' = [NoRequest EXCEPT !.endpoint = "get_prediction",
                                           !.user_id = user_id]
           /\ IF user_id \notin DOMAIN cycles_db
              THEN /\ Respond(Error(404, "No cycle data found"))
                   /\ NoPredictorCall
              ELSE /\ Call(cycles_db[user_id], AppNows)
                   /\ handler' = "get_prediction"
                   /\ response' = NoResponse
    /\ NoSelectorCall
    /\ UNCHANGED <<tvars, cycles_db, cvars, dvars>>

\* Lines 426-432.
get_prediction_return ==
    /\ handler = "get_prediction"
    /\ pc = "done"
    /\ Respond(IF Escaped THEN Unhandled(outcome)
               ELSE IF outcome = "None" THEN Error(400, "Invalid cycle data")
               ELSE PredictionResponse(""))
    /\ Resume

\* Lines 552-567: POST /api/chat, up to the call of calculate_predictions.
chat ==
    /\ handler = "none"
    /\ pc = "idle"
    /\ served < MaxRequests
    /\ served' = served + 1
    /\ \E msg \in ChatMessages, user_id \in UserIdInputs :
           /\ request' = [NoRequest EXCEPT !.endpoint = "chat",
                                           !.user_id = user_id,
                                           !.message = msg]
           /\ IF Strip(msg) = <<>>
              THEN /\ Respond(Error(400, "Message cannot be empty"))
                   /\ NoSelectorCall
                   /\ NoPredictorCall
              ELSE /\ spc' = "done"
                   /\ message' = msg
                   /\ reply' = get_chatbot_response(msg)
                   /\ IF user_id # "" /\ user_id \in DOMAIN cycles_db
                      THEN /\ Call(cycles_db[user_id], AppNows)
                           /\ handler' = "chat"
                           /\ response' = NoResponse
                      ELSE /\ Respond(ChatResponse(get_chatbot_response(msg),
                                                   <<>>))
                           /\ NoPredictorCall
    /\ UNCHANGED <<tvars, cycles_db, cvars, dvars>>

\* Lines 568-575.
chat_return ==
    /\ handler = "chat"
    /\ pc = "done"
    /\ Respond(IF Escaped THEN Unhandled(outcome)
               ELSE ChatResponse(reply,
                        IF outcome = "prediction"
                        THEN Personalization(result) ELSE <<>>))
    /\ Resume

\* ---------------------------------------------------- concurrent callers
NoCall ==
    [made |-> FALSE, data |-> NoProfile, now |-> Unset, outcome |-> "none",
     result |-> NoPrediction, writes |-> 0]

\* The profiles another request may store meanwhile (lines 404-409).
StoredProfiles ==
    [last_period_date : {PyStr(IsoText(1, 1, 25)),
                         PyStr(<<"s", "o", "o", "n">>)},
     cycle_length : {PyInt(28)},
     period_length : {PyInt(5), PyInt(20)},
     mood : {PyStr(<<>>)}]

ConcNows == {Midnight(44) + 1, Midnight(62)}

\* A caller passes a stored profile to calculate_predictions, as lines 411,
\* 425 and 567 do.
PredictStored ==
    /\ pc = "idle"
    /\ calls < MaxCalls
    /\ calls' = calls + 1
    /\ \E user_id \in DOMAIN cycles_db :
           /\ caller' = user_id
           /\ Call(cycles_db[user_id], ConcNows)
    /\ UNCHANGED <<svars, tvars, cycles_db, hvars, prev, writes, dvars>>

\* The call has returned or raised; the caller keeps what it gave and got.
Return ==
    /\ pc = "done"
    /\ pc' = "idle"
    /\ prev' = [made |-> TRUE, data |-> cycle_data, now |-> today,
                outcome |-> outcome, result |-> result, writes |-> writes]
    /\ UNCHANGED <<cycle_data, today, last_period, cycle_length, period_length,
                   next_period, ovulation_date, fertile_start, fertile_end,
                   iters, outcome, result>>
    /\ UNCHANGED <<svars, tvars, cycles_db, hvars, caller, calls, writes, dvars>>

\* Another caller calls get_chatbot_response at any moment.
SelectMeanwhile ==
    /\ spc = "idle"
    /\ \E msg \in ChatMessages : Selecting(msg)

\* Lines 404-409 of another request: a profile is stored at any moment.
StoreMeanwhile ==
    /\ writes < MaxWrites
    /\ writes' = writes + 1
    /\ \E user_id \in UserIdInputs \ {""}, stored \in StoredProfiles :
           cycles_db' = Put(cycles_db, user_id, stored)
    /\ UNCHANGED <<pvars, svars, tvars, hvars, caller, prev, calls, dvars>>

\* ------------------------------------------------------- invite_friend
\* Line 477: the size of a full Inner Circle.
InnerCircleLimit == 10

\* Lines 91-96: the Inner Circle of the demo user.
Seed_inner_circle_db ==
    "demo-user-001" :>
        <<
          [friend_email |-> <<"p", "r", "i", "y", "a", "@", "e", "x", "a", "m", "p", "l", "e", ".", "c", "o", "m">>,
           friend_name |-> PyStr(<<"P", "r", "i", "y", "a", " ", "M", ".">>),
           status |-> "connected"],
          [friend_email |-> <<"a", "n", "n", "a", "@", "e", "x", "a", "m", "p", "l", "e", ".", "c", "o", "m">>,
           friend_name |-> PyStr(<<"A", "n", "n", "a", " ", "K", ".">>),
           status |-> "connected"],
          [friend_email |-> <<"m", "i", "a", "@", "e", "x", "a", "m", "p", "l", "e", ".", "c", "o", "m">>,
           friend_name |-> PyStr(<<"M", "i", "a", " ", "L", ".">>),
           status |-> "connected"],
          [friend_email |-> <<"z", "o", "e", "@", "e", "x", "a", "m", "p", "l", "e", ".", "c", "o", "m">>,
           friend_name |-> PyStr(<<"Z", "o", "e", " ", "R", ".">>),
           status |-> "pending"]
        >>

\* Mutant: the address is trimmed but not lowercased.
NormalizeEmailKeepCase(t) == Strip(t)

\* .strip().lower() (lines 348, 380, 467)
NormalizeEmail(t) == Lower(Strip(t))

FreshEmails ==
    {<<"f", Digits[i + 1], "@", "x", ".", "i", "o">> : i \in 1..FreshEmailCount}

FriendEmailInputs ==
    {Absent, Null, PyStr(<<" ", "\t">>),
     PyStr(<<" ", "F", "1", "@", "X", ".", "i", "o", "\t">>),
     PyStr(<<"P", "r", "i", "y", "a", "@", "E", "x", "a", "m", "p", "l", "e", ".", "C", "O", "M", " ">>)}
        \cup {PyStr(e) : e \in FreshEmails}

InviteInputs ==
    {[user_id |-> "demo-user-001", friend_email |-> e, friend_name |-> Absent] :
         e \in FriendEmailInputs}
      \cup {[user_id |-> "new-user", friend_email |-> e,
             friend_name |-> PyStr(<<"Z", "e", "d">>)] :
                e \in {PyStr(<<"f", "1", "@", "x", ".", "i", "o">>),
                       PyStr(<<" ", "F", "1", "@", "X", ".", "i", "o", "\t">>)}}
      \cup {[user_id |-> "", friend_email |-> PyStr(e), friend_name |-> Absent] :
                e \in {<<"f", "1", "@", "x", ".", "i", "o">>}}

\* Line 467 for each request body: the friend_email the handler works with.
Invitations ==
    {[data |-> d,
      friend_email |-> NormalizeEmail(GetOrEmpty(d.friend_email).s)] :
         d \in InviteInputs}

\* Mutant: only the invitations still pending are looked at.
DuplicateAmongPending(circle, friend_email) ==
    \E i \in 1..Len(circle) :
        circle[i].status = "pending" /\ circle[i].friend_email = friend_email

\* Lines 481-483.
Duplicate(circle, friend_email) ==
    \E i \in 1..Len(circle) : circle[i].friend_email = friend_email

InvitationSent ==
    <<"I", "n", "v", "i", "t", "a", "t", "i", "o", "n", " ", "s", "e", "n", "t", " ", "t", "o", " ">>

\* Lines 463-491: POST /api/inner-circle/invite.  The text of the success
\* message is the "message" of the response.
invite_friend ==
    /\ handler = "none"
    /\ \E invitation \in Invitations :
           LET data == invitation.data
               user_id == data.user_id
               given == GetOrEmpty(data.friend_email)
               friend_email == invitation.friend_email
               friend_name == IF data.friend_name.kind = "absent"
                              THEN PyStr(<<"F", "r", "i", "e", "n", "d">>)
                              ELSE data.friend_name
               created == IF user_id \in DOMAIN inner_circle_db
                          THEN inner_circle_db
                          ELSE Put(inner_circle_db, user_id, <<>>)
           IN /\ request' = [NoRequest EXCEPT !.endpoint = "invite_friend",
                                              !.user_id = user_id]
              /\ IF given.kind # "str"
                 THEN /\ response' = Unhandled("AttributeError")
                      /\ UNCHANGED inner_circle_db
                 ELSE IF user_id = "" \/ friend_email = <<>>
                 THEN /\ response' = Error(400, "user_id and friend_email required")
                      /\ UNCHANGED inner_circle_db
                 ELSE IF Len(created[user_id]) >= InnerCircleLimit
                 THEN /\ response' = Error(400, "Inner Circle is full (max 10 friends)")
                      /\ inner_circle_db' = created
                 ELSE IF Duplicate(created[user_id], friend_email)
                 THEN /\ response' = Error(409, "Friend already in your Inner Circle")
                      /\ inner_circle_db' = created
                 ELSE /\ response' = [NoResponse EXCEPT
                                          !.code = 200, !.status = "success",
                                          !.text = InvitationSent \o friend_email]
                      /\ inner_circle_db' =
                             Put(created, user_id,
                                 Append(created[user_id],
                                        [friend_email |-> friend_email,
                                         friend_name |-> friend_name,
                                         status |-> "pending"]))
    /\ UNCHANGED <<pvars, svars, tvars, cycles_db, handler, served, cvars,
                   users_db, registered>>

\* ------------------------------------------------------ register, login
\* Lines 73-78: the demo user.  users_db in insertion order.
Seed_users_db ==
    <<[user_id |-> "demo-user-001",
       email |-> <<"s", "a", "r", "a", "h", "@", "e", "x", "a", "m", "p", "l", "e", ".", "c", "o", "m">>,
       password |-> PyStr(<<"p", "a", "s", "s", "w", "o", "r", "d", "1", "2", "3">>),
       name |-> PyStr(<<"S", "a", "r", "a", "h", " ", "J", "e", "n", "k", "i", "n", "s">>)]>>

\* A JSON value is true unless it is null, missing, "" or 0.
Truthy(v) ==
    \/ v.kind = "str" /\ v.s # <<>>
    \/ v.kind = "int" /\ v.n # 0

EmailInputs ==
    {Absent, Null,
     PyStr(<<"n", "e", "w", "@", "m", "a", "i", "l", ".", "i", "o">>),
     PyStr(<<" ", "N", "e", "w", "@", "M", "a", "i", "l", ".", "I", "O", "\t">>),
     PyStr(<<"o", "t", "h", "e", "r", "@", "m", "a", "i", "l", ".", "i", "o">>),
     PyStr(<<"S", "a", "r", "a", "h", "@", "E", "x", "a", "m", "p", "l", "e", ".", "c", "o", "m">>)}

PasswordInputs ==
    {Absent, PyStr(<<"p", "w", "1">>), PyStr(<<"P", "W", "1">>),
     PyStr(<<"p", "a", "s", "s", "w", "o", "r", "d", "1", "2", "3">>)}

Credentials == [email : EmailInputs, password : PasswordInputs, name : {Absent}]

\* Lines 348 and 380 for each email of a request body.
EmailOf == [given \in EmailInputs |-> NormalizeEmail(GetOrEmpty(given).s)]

\* str(uuid.uuid4()): an identifier no user has yet.
Uuids == {"uuid-a", "uuid-b", "uuid-c"}
UserIds(db) == {db[i].user_id : i \in 1..Len(db)}

\* Lines 356-358.
EmailTaken(db, email) == \E i \in 1..Len(db) : db[i].email = email

\* Lines 345-374: POST /api/register.
register ==
    /\ handler = "none"
    /\ \E data \in Credentials :
           LET given == GetOrEmpty(data.email)
               email == EmailOf[data.email]
               password == GetOrEmpty(data.password)
               name == GetOrEmpty(data.name)
           IN /\ request' = [NoRequest EXCEPT !.endpoint = "register",
                                              !.data = data]
              /\ IF given.kind # "str"
                 THEN /\ response' = Unhandled("AttributeError")
                      /\ UNCHANGED <<users_db, registered>>
                 ELSE IF email = <<>> \/ ~Truthy(password)
                 THEN /\ response' = Error(400, "Email and password are required")
                      /\ UNCHANGED <<users_db, registered>>
                 ELSE IF EmailTaken(users_db, email)
                 THEN /\ response' = Error(409, "Email already registered")
                      /\ UNCHANGED <<users_db, registered>>
                 ELSE \E user_id \in Uuids \ UserIds(users_db) :
                          /\ users_db' = Append(users_db,
                                                [user_id |-> user_id,
                                                 email |-> email,
                                                 password |-> password,
                                                 name |-> name])
                          /\ response' = [NoResponse EXCEPT
                                 !.code = 201, !.status = "success",
                                 !.message = "User registered successfully",
                                 !.user_id = user_id,
                                 !.text = email]
                          /\ registered' = registered \cup
                                 {[data |-> data, user_id |-> user_id]}
    /\ UNCHANGED <<pvars, svars, tvars, cycles_db, handler, served, cvars,
                   inner_circle_db>>

\* Lines 379-393: what login answers for a request body, given users_db.
LoginResponse(db, data) ==
    LET given == GetOrEmpty(data.email)
        email == EmailOf[data.email]
        password == GetOrEmpty(data.password)
        found == {i \in 1..Len(db) :
                      db[i].email = email /\ db[i].password = password}
    IN IF given.kind # "str" THEN Unhandled("AttributeError")
       ELSE IF found = {} THEN Error(401, "Invalid email or password")
       ELSE LET first == CHOOSE i \in found : \A j \in found : i <= j
            IN [NoResponse EXCEPT !.code = 200, !.status = "success",
                                  !.message = "Login successful",
                                  !.user_id = db[first].user_id,
                                  !.text = db[first].email]

\* Lines 377-393: POST /api/login.
login ==
    /\ handler = "none"
    /\ \E data \in Credentials :
           /\ request' = [NoRequest EXCEPT !.endpoint = "login", !.data = data]
           /\ response' = LoginResponse(users_db, data)
    /\ UNCHANGED <<pvars, svars, tvars, cycles_db, handler, served, cvars,
                   dvars>>

Init ==
    /\ spc = "idle"
    /\ message = <<>>
    /\ reply = None
    /\ pc = "idle"
    /\ cycle_data = NoProfile
    /\ today = Unset
    /\ last_period = Unset
    /\ cycle_length = Unset
    /\ period_length = Unset
    /\ next_period = Unset
    /\ ovulation_date = Unset
    /\ fertile_start = Unset
    /\ fertile_end = Unset
    /\ iters = 0
    /\ outcome = "none"
    /\ result = NoPrediction
    /\ responses = CHATBOT_RESPONSES
    /\ fallback = FALLBACK_RESPONSE
    /\ cycles_db = Seed_cycles_db
    /\ handler = "none"
    /\ request = NoRequest
    /\ response = NoResponse
    /\ served = 0
    /\ caller = ""
    /\ prev = NoCall
    /\ calls = 0
    /\ writes = 0
    /\ inner_circle_db = Seed_inner_circle_db
    /\ users_db = Seed_users_db
    /\ registered = {}

Next ==
    \/ calculate_predictions
    \/ LoopIter
    \/ Finish

Spec == Init /\ [][Next]_vars

\* A call that has started runs on: Python executes the loop and the lines
\* after it without waiting for anything.
SpecFair == Spec /\ WF_vars(LoopIter) /\ WF_vars(Finish)

NextSelect == Select

SpecSelect == Init /\ [][NextSelect]_vars

NextApp ==
    \/ store_cycle
    \/ store_cycle_return
    \/ get_prediction
    \/ get_prediction_return
    \/ chat
    \/ chat_return
    \/ LoopIter
    \/ Finish

SpecApp == Init /\ [][NextApp]_vars

NextConc ==
    \/ PredictStored
    \/ LoopIter
    \/ Finish
    \/ Return
    \/ SelectMeanwhile
    \/ StoreMeanwhile

SpecConc == Init /\ [][NextConc]_vars

NextCircle == invite_friend

SpecCircle == Init /\ [][NextCircle]_vars

NextUsers ==
    \/ register
    \/ login

SpecUsers == Init /\ [][NextUsers]_vars

\* ------------------------------------------------------------- claims
Returned == pc = "done" /\ outcome = "prediction"
ValidDate == ParseLastPeriod(cycle_data.last_period_date).exc = "none"
GivenCycleLength == PyIntOf(DictGet(cycle_data.cycle_length, 28))
GivenPeriodLength == PyIntOf(DictGet(cycle_data.period_length, 5))
Unreadable(v) == v.kind = "absent" \/ PyIntOf(v).exc # "none"
DateOfFields(f) == Midnight(ToOrdinal(f[1], f[2], f[3]))

\* C1: a call with a parseable last_period_date and a cycle_length <= 0 (and
\* a readable period_length) ends, for every clock value, with the failure
\* result InvalidCycleLengthError: no exception, no prediction.
C1_NonPositiveCycleLengthRejected ==
    (/\ pc = "done"
     /\ ValidDate
     /\ GivenCycleLength.exc = "none" /\ GivenCycleLength.val <= 0
     /\ GivenPeriodLength.exc = "none")
        => outcome = "InvalidCycleLengthError"

\* C2: a call whose last_period_date is missing, null, not a string or not
\* a YYYY-MM-DD date ends with the failure result (None): no exception
\* escapes and no prediction is produced.
C2_InvalidDateReturnsFailure ==
    (pc = "done" /\ ~ValidDate) => outcome = "None"

\* C3: for a valid profile (cycle_length > 0) and every clock value, the
\* next period returned is not earlier than now, also when now is earlier
\* than last_period_date.
C3_NextPeriodNotBeforeNow ==
    (Returned /\ cycle_length > 0)
        => /\ next_period >= today
           /\ DateOfFields(result.next_period_full) >= today
           /\ result.next_period = FormatShort(DateOfFields(result.next_period_full))

C3_Witness ==
    /\ Returned /\ cycle_length > 0
    /\ today < last_period
    /\ DateOfFields(result.next_period_full) = last_period + Days(cycle_length)

\* C4: for cycle_length > 0 and every clock value, days_since_period is the
\* residue in [0, cycle_length) of the whole days from last_period to now,
\* and day_of_cycle = days_since_period + 1 lies in [1, cycle_length].
C4_DayOfCycleInRange ==
    (Returned /\ cycle_length > 0)
        => LET dsp == result.day_of_cycle - 1
           IN /\ dsp >= 0 /\ dsp < cycle_length
              /\ result.day_of_cycle >= 1
              /\ result.day_of_cycle <= cycle_length
              /\ (TimedeltaDays(today - last_period) - dsp) % cycle_length = 0

C4_Witness ==
    /\ Returned /\ cycle_length > 1
    /\ today < last_period
    /\ result.day_of_cycle = cycle_length

\* C5: the phase is one of the four, by the first rule that matches in the
\* order: days_since_period < period_length, Menstrual; < 13, Follicular;
\* < 17, Ovulation; else Luteal; for any integer period_length.  With
\* cycle_length 28 and period_length 5: 0..4, 5..12, 13..16, 17..27.
C5_PhaseByFirstMatch ==
    (Returned /\ cycle_length > 0)
        => LET dsp == result.day_of_cycle - 1
               ph == result.phase
           IN /\ ph \in {"Menstrual", "Follicular", "Ovulation", "Luteal"}
              /\ (ph = "Menstrual") <=> (dsp < period_length)
              /\ (ph = "Follicular") <=> (dsp >= period_length /\ dsp < 13)
              /\ (ph = "Ovulation")
                    <=> (dsp >= period_length /\ dsp >= 13 /\ dsp < 17)
              /\ (ph = "Luteal") <=> (dsp >= period_length /\ dsp >= 17)
              /\ (cycle_length = 28 /\ period_length = 5)
                    => /\ (dsp \in 0..4) => ph = "Menstrual"
                       /\ (dsp \in 5..12) => ph = "Follicular"
                       /\ (dsp \in 13..16) => ph = "Ovulation"
                       /\ (dsp \in 17..27) => ph = "Luteal"
              /\ result.period_length = period_length

C5_Witness ==
    /\ Returned /\ cycle_length = 28 /\ period_length = 5
    /\ result.day_of_cycle = 14
    /\ result.phase = "Ovulation"

\* C6: ovulation_date is next_period - 14 days, fertile_start and
\* fertile_end are ovulation_date - 2 and + 2 days, so that the window
\* spans exactly 4 days; the dates returned are these.
C6_OvulationAndFertileWindow ==
    Returned
        => /\ ovulation_date = next_period - Days(14)
           /\ fertile_start = ovulation_date - Days(2)
           /\ fertile_end = ovulation_date + Days(2)
           /\ TimedeltaDays(fertile_end - fertile_start) = 4
           /\ fertile_end - fertile_start = Days(4)
           /\ result.ovulation_date = FormatShort(ovulation_date)
           /\ result.fertile_start = FormatShort(fertile_start)
           /\ result.fertile_end = FormatShort(fertile_end)
           /\ result.fertile_window = <<result.fertile_start, result.fertile_end>>

C6_Witness ==
    /\ Returned /\ cycle_length > 0
    /\ result.fertile_start[1] # result.fertile_end[1]

\* C7: with a valid date, a cycle_length that is absent or cannot be read as
\* an integer is taken as 28 and such a period_length as 5, and a prediction
\* is returned (the other field being a positive cycle_length or a readable
\* period_length).
C7_DefaultsOnAbsentOrInvalid ==
    (/\ pc = "done"
     /\ ValidDate
     /\ Unreadable(cycle_data.cycle_length) \/ GivenCycleLength.val > 0
     /\ Unreadable(cycle_data.cycle_length) \/ Unreadable(cycle_data.period_length))
        => /\ Returned
           /\ Unreadable(cycle_data.cycle_length) => result.cycle_length = 28
           /\ Unreadable(cycle_data.period_length) => result.period_length = 5

\* C8: days_until_period is max(0, (next_period - now).days): the whole days
\* from now to next_period, never negative.
C8_DaysUntilPeriod ==
    Returned
        => LET du == result.days_until_period
               delta == next_period - today
           IN /\ du >= 0
              /\ IF delta < 0 THEN du = 0
                 ELSE Days(du) <= delta /\ delta < Days(du + 1)

C8_Witness ==
    /\ Returned /\ cycle_length > 0
    /\ today # Midnight(OrdinalOf(today))
    /\ OrdinalOf(next_period) > OrdinalOf(today)
    /\ result.days_until_period = 0

\* The table entries whose keyword occurs in the lowercased, trimmed message.
Matching ==
    LET text == Normalize(message)
    IN {i \in 1..Len(CHATBOT_RESPONSES) :
           Contains(CHATBOT_RESPONSES[i].keyword, text)}
KeywordLen(i) == Len(CHATBOT_RESPONSES[i].keyword)
EntryOf(keyword) ==
    CHATBOT_RESPONSES[CHOOSE i \in 1..Len(CHATBOT_RESPONSES) :
                          CHATBOT_RESPONSES[i].keyword = keyword].data

\* C9: among the keywords that occur in the lowercased, trimmed message the
\* entry of the longest is returned, and of several longest ones the first
\* in table order; "I have really bad cramps and a headache" gets the
\* "headache" entry, not the "cramp" entry.
C9_LongestKeywordFirstSeen ==
    (spc = "done")
        => /\ Matching # {}
                => \E i \in Matching :
                       /\ reply = CHATBOT_RESPONSES[i].data
                       /\ \A j \in Matching :
                              /\ KeywordLen(j) <= KeywordLen(i)
                              /\ KeywordLen(j) = KeywordLen(i) => i <= j
           /\ message = Example
                => /\ reply = EntryOf(<<"h", "e", "a", "d", "a", "c", "h", "e">>)
                   /\ reply # EntryOf(<<"c", "r", "a", "m", "p">>)
           /\ message = <<"P", "e", "r", "i", "o", "d", " ">>
                => reply = EntryOf(<<"p", "e", "r", "i", "o", "d">>)

C9_Witness ==
    /\ spc = "done"
    /\ \E i \in Matching, j \in Matching :
           i < j /\ KeywordLen(i) = KeywordLen(j) /\ reply = CHATBOT_RESPONSES[i].data

\* C10: the selector always returns an entry: the fallback entry exactly
\* when no keyword occurs in the normalized message, and otherwise an
\* entry of the table.
C10_FallbackIffNoMatch ==
    (spc = "done")
        => /\ reply # None
           /\ (reply = FALLBACK_RESPONSE) <=> (Matching = {})
           /\ Matching # {}
                => \E i \in 1..Len(CHATBOT_RESPONSES) :
                       reply = CHATBOT_RESPONSES[i].data
           /\ message = <<"x", "y", "z", "a", "b", "c", "1", "2", "3">>
                => reply = FALLBACK_RESPONSE

C10_Witness ==
    /\ spc = "done"
    /\ Len(Normalize(message)) > 0
    /\ Matching = {}
    /\ reply = FALLBACK_RESPONSE

NextPeriodReturned == DateOfFields(result.next_period_full)
CeilDiv(a, b) == -((-a) \div b)

\* C15 as stated: for a valid profile with cycle_length > 0 the next period
\* returned is last_period_date + k * cycle_length for a whole number k
\* (0, 1, 2, ...), and every earlier date last_period_date + j * cycle_length
\* is earlier than now.
C15_SmallestWholeNumberOfAdvances ==
    (Returned /\ cycle_length > 0)
        => \E k \in 0..(MaxPasses + 1) :
               /\ NextPeriodReturned = last_period + Days(k * cycle_length)
               /\ \A j \in 0..(k - 1) :
                      last_period + Days(j * cycle_length) < today

\* C15: for a valid profile with cycle_length > 0 the next period returned
\* is last_period_date + k * cycle_length for the smallest k >= 1 whose date
\* is not earlier than now: every date last_period_date + j * cycle_length
\* with 1 <= j < k is earlier than now.
C15_SmallestAdvanceFromOne ==
    (Returned /\ cycle_length > 0)
        => \E k \in 1..(MaxPasses + 1) :
               /\ NextPeriodReturned = last_period + Days(k * cycle_length)
               /\ NextPeriodReturned >= today
               /\ \A j \in 1..(k - 1) :
                      last_period + Days(j * cycle_length) < today

C15_Witness ==
    /\ Returned /\ cycle_length > 1
    /\ today > last_period
    /\ NextPeriodReturned = last_period + Days(2 * cycle_length)

\* C16: for cycle_length > 0 and now >= last_period_date the loop of lines
\* 115-116 ends, after max(0, ceil((now - last_period_date) / cycle_length) - 1)
\* passes, which is at most ceil((now - last_period_date) / cycle_length),
\* whether the difference is taken exactly or in whole days.
C16_PassesWithinBound ==
    (pc \in {"loop", "done"} /\ outcome \in {"none", "prediction"}
       /\ cycle_length > 0 /\ today >= last_period)
        => /\ iters < MaxPasses
           /\ iters <= Max(0, CeilDiv(today - last_period, Days(cycle_length)) - 1)
           /\ pc = "done"
                => iters = Max(0, CeilDiv(today - last_period, Days(cycle_length)) - 1)
           /\ iters <= CeilDiv(today - last_period, Days(cycle_length))
           /\ iters <= CeilDiv(TimedeltaDays(today - last_period), cycle_length)

C16_LoopTerminatesWithinBound ==
    /\ [] C16_PassesWithinBound
    /\ (pc = "loop" /\ cycle_length > 0 /\ today >= last_period) ~> (pc = "done")

C16_Witness ==
    /\ Returned /\ cycle_length > 1
    /\ today >= last_period
    /\ iters = 1
    /\ iters = CeilDiv(today - last_period, Days(cycle_length)) - 1

\* C18: for a valid profile with cycle_length > 0 and now >= last_period_date
\* the returned days_until_period is at most cycle_length.
C18_DaysUntilPeriodAtMostCycleLength ==
    (Returned /\ cycle_length > 0 /\ today >= last_period)
        => /\ result.days_until_period <= cycle_length
           /\ result.days_until_period <= result.cycle_length
           /\ result.cycle_length = cycle_length

C18_Witness ==
    /\ Returned /\ cycle_length > 1
    /\ today >= last_period
    /\ result.days_until_period = cycle_length

\* A chat request has been answered with a response text.
ChatAnswered ==
    handler = "none" /\ response.status = "success" /\ response.text # <<>>
\* ... for a requester with a stored profile on which the predictor succeeded.
ChatPersonalized ==
    /\ ChatAnswered
    /\ request.user_id \in DOMAIN cycles_db
    /\ outcome = "prediction"
PhaseWord == <<" ", "p", "h", "a", "s", "e">>
DayOfText(day, d, len) ==
    day \o <<" ">> \o StrOfInt(d) \o <<" ", "o", "f", " ">> \o StrOfInt(len)

Answered(endpoint) ==
    handler = "none" /\ request.endpoint = endpoint /\ response.code # 0
PredictorFailed == outcome \notin {"none", "prediction"}

\* C14: when calculate_predictions fails on the profile that store_cycle
\* has just stored or that get_prediction has read, the handler answers
\* with an error status and no prediction: never with a success that
\* carries a null or absent prediction.
C14_PredictorFailureReported ==
    ((Answered("store_cycle") \/ Answered("get_prediction")) /\ PredictorFailed)
        => /\ response.status = "error"
           /\ response.predictions = "absent"

\* C17: a chat request with a message that is empty or only whitespace is
\* rejected with an error before either function is called; every other
\* chat request succeeds, its text is the selector's response text, and
\* something is appended to it exactly when the requester has a stored
\* profile on which calculate_predictions succeeds.
C17_SuffixIffPredictionSucceeds ==
    Answered("chat")
        => IF Strip(request.message) = <<>>
           THEN /\ response.status = "error"
                /\ spc = "idle"
                /\ outcome = "none"
           ELSE /\ response.status = "success"
                /\ Head(response.text)
                       = get_chatbot_response(request.message).response
                /\ (Len(response.text) > 1)
                       <=> (/\ request.user_id # ""
                            /\ request.user_id \in DOMAIN cycles_db
                            /\ outcome = "prediction")

\* C12: a call of calculate_predictions given the same profile and reading
\* the same clock value as the previous call ends as that call did, with
\* the same record, whatever was stored in cycles_db or selected from the
\* table in between.
C12_SameProfileSameNowSameResult ==
    (pc = "done" /\ prev.made /\ prev.data = cycle_data /\ prev.now = today)
        => /\ outcome = prev.outcome
           /\ result = prev.result

C12_Witness ==
    /\ pc = "done" /\ outcome = "prediction"
    /\ prev.made /\ prev.data = cycle_data /\ prev.now = today
    /\ prev.writes < writes
    /\ cycles_db[caller] # cycle_data
    /\ spc = "done"

\* What calculate_predictions returns for the profile and the clock value of
\* the running call when nothing else runs: the loop of lines 115-116 as a
\* recursion.
RECURSIVE NextPeriodAlone(_, _, _)
NextPeriodAlone(np, td, cl) ==
    IF LoopCond(np, td) THEN NextPeriodAlone(Advance(np, cl), td, cl) ELSE np
PredictionAlone ==
    LET lp == ParseLastPeriod(cycle_data.last_period_date).val
        cl == PyIntOf(DictGet(cycle_data.cycle_length, 28)).val
        pl == PyIntOf(DictGet(cycle_data.period_length, 5)).val
    IN Prediction(NextPeriodAlone(Advance(lp, cl), today, cl), today, lp, cl, pl)

\* C13: a step of calculate_predictions or of get_chatbot_response changes
\* neither cycles_db nor the keyword table nor the fallback entry, the
\* profile given to a running call stays as it was given, the two tables
\* are always as they were defined, and every call returns what it returns
\* when it runs alone, however the calls and the writes of other requests
\* to cycles_db interleave.
C13_FunctionStepsKeepSharedState ==
    (pvars' # pvars \/ svars' # svars)
        => /\ cycles_db' = cycles_db
           /\ responses' = responses
           /\ fallback' = fallback
           /\ pc = "loop" => cycle_data' = cycle_data

C13_ResultsAsAlone ==
    /\ responses = CHATBOT_RESPONSES
    /\ fallback = FALLBACK_RESPONSE
    /\ (pc = "done" /\ outcome = "prediction") => result = PredictionAlone
    /\ spc = "done"
         => reply = (IF Matching = {} THEN FALLBACK_RESPONSE
                     ELSE CHATBOT_RESPONSES[
                              CHOOSE i \in Matching :
                                  \A j \in Matching :
                                      \/ KeywordLen(j) < KeywordLen(i)
                                      \/ KeywordLen(j) = KeywordLen(i) /\ i <= j
                          ].data)

C13_NoSharedStateChanged ==
    /\ [][C13_FunctionStepsKeepSharedState]_vars
    /\ []C13_ResultsAsAlone

C13_Witness ==
    /\ pc = "done" /\ outcome = "prediction"
    /\ iters > 0
    /\ writes > prev.writes
    /\ cycles_db[caller] # cycle_data
    /\ spc = "done" /\ Matching # {}
    /\ calls = MaxCalls

CircleOf(db, user_id) == IF user_id \in DOMAIN db THEN db[user_id] ELSE <<>>

C19_CircleBoundedAndDistinct ==
    \A user_id \in DOMAIN inner_circle_db :
        LET circle == inner_circle_db[user_id]
        IN /\ Len(circle) <= 10
           /\ \A i, j \in 1..Len(circle) :
                  i # j => circle[i].friend_email # circle[j].friend_email

C19_InviteStep ==
    LET user_id == request'.user_id
        before == CircleOf(inner_circle_db, user_id)
        after == CircleOf(inner_circle_db', user_id)
    IN /\ response'.code \in {400, 409, 500} => inner_circle_db' = inner_circle_db
       /\ response'.code \notin {400, 409, 500}
            => /\ response'.code = 200
               /\ Len(after) = Len(before) + 1
               /\ SubSeq(after, 1, Len(before)) = before
               /\ after[Len(after)].status = "pending"
               /\ after[Len(after)].friend_email
                      = Lower(Strip(after[Len(after)].friend_email))
               /\ response'.text = InvitationSent \o after[Len(after)].friend_email
               /\ \A other \in DOMAIN inner_circle_db' \ {user_id} :
                      /\ other \in DOMAIN inner_circle_db
                      /\ inner_circle_db'[other] = inner_circle_db[other]

\* C19: after any sequence of invite_friend requests every Inner Circle
\* holds at most 10 entries, no two of them with the same friend_email; a
\* request answered 400 or 409 leaves inner_circle_db as it was, and every
\* other request is answered 200 and appends exactly one entry, with status
\* "pending", to the circle of its user.
C19_InnerCircleInvariant ==
    /\ []C19_CircleBoundedAndDistinct
    /\ [][C19_InviteStep]_vars

C19_Witness ==
    /\ Len(inner_circle_db["demo-user-001"]) = 10
    /\ inner_circle_db["demo-user-001"][10].status = "pending"
    /\ response.message = "Inner Circle is full (max 10 friends)"
    /\ "new-user" \in DOMAIN inner_circle_db

C20_EmailsDistinct ==
    \A i, j \in 1..Len(users_db) :
        i # j => /\ users_db[i].email # users_db[j].email
                 /\ Lower(Strip(users_db[i].email))
                        # Lower(Strip(users_db[j].email))

\* Whoever has registered can log in with what they registered with, and
\* the login that has just been answered did so.
C20_LoginAfterRegister ==
    \A r \in registered :
        /\ LoginResponse(users_db, r.data).code = 200
        /\ LoginResponse(users_db, r.data).user_id = r.user_id
        /\ (request.endpoint = "login"
              /\ request.data.email = r.data.email
              /\ request.data.password = r.data.password)
             => /\ response.status = "success"
                /\ response.user_id = r.user_id

C20_Step ==
    /\ request'.endpoint = "login" => users_db' = users_db
    /\ (request'.endpoint = "register" /\ response'.code \in {400, 409})
         => users_db' = users_db
    /\ users_db' # users_db
         => /\ request'.endpoint = "register"
            /\ response'.code = 201
            /\ response'.user_id \notin UserIds(users_db)
            /\ Len(users_db') = Len(users_db) + 1
            /\ SubSeq(users_db', 1, Len(users_db)) = users_db
            /\ users_db'[Len(users_db')].user_id = response'.user_id

\* C20: after any sequence of register and login requests no two records
\* of users_db have the same lowercased, trimmed email; a register answered
\* 400 or 409 and every login leave users_db unchanged; and a login with
\* the email and password of a successful register succeeds and returns
\* the user_id that register returned.
C20_UsersInvariant ==
    /\ [](C20_EmailsDistinct /\ C20_LoginAfterRegister)
    /\ [][C20_Step]_vars

C20_Witness ==
    /\ Len(users_db) = 3
    /\ request.endpoint = "login"
    /\ response.status = "success"
    /\ \E r \in registered :
           /\ request.data.email = r.data.email
           /\ request.data.password = r.data.password
           /\ r.data.email.s # users_db[Len(users_db)].email
           /\ response.user_id = r.user_id
           /\ response.user_id = users_db[Len(users_db)].user_id

====
